---- MODULE Spec2Model ----
(***************************************************************************)
(* A model of nanoplotter.py: the flowcell layout (make_layout), the       *)
(* channel activity map (spatial_heatmap), and the time handling of        *)
(* check_valid_time_and_sort and time_plots, and the option checks and     *)
(* plot functions around them.                                             *)
(*                                                                         *)
(* Every function of the module is stateless, so the state machine is one  *)
(* call: from the idle state one of the functions is called on inputs      *)
(* drawn from bounded sets, and the state afterwards holds the inputs, the *)
(* values the function computed, the records it logged and how it ended    *)
(* (pc = "done", or pc = "raised" with the exception in exc).              *)
(*                                                                         *)
(* numpy arrays are functions over 0-based indices (grid[r][c]); Python    *)
(* lists and pandas columns are sequences.  Times are whole seconds.  A    *)
(* table of reads is modelled by its start_time column alone.              *)
(***************************************************************************)
EXTENDS Integers, Sequences, FiniteSets, TLC

VARIABLES
    pc,            \* "idle", "done" or "raised"
    fn,            \* the function that was called
    exc,           \* the exception that ended the call, "" when none
    log,           \* records written through the logging module
    stderr,        \* lines written to sys.stderr
    array,         \* spatial_heatmap: the channel observations
    layout,        \* spatial_heatmap: the grid make_layout() returned
    activityData,  \* spatial_heatmap: the grid handed to the heatmap
    df,            \* the start_time column of the table passed in
    days,          \* check_valid_time_and_sort: its days argument
    has_quals,     \* time_plots: whether the table has a "quals" column
    dfs,           \* the table check_valid_time_and_sort returned
    nsample,       \* time_plots: the number of rows asked of dfs.sample
    dfs_sparse,    \* time_plots: the sampled rows
    maxtime,       \* time_plots: dfs_sparse["start_time"].max()
    ticks,         \* time_plots: the x axis ticks (hours)
    nbins,         \* time_plots: the bins argument of pd.cut
    labels,        \* time_plots: the labels argument of pd.cut (lower edges)
    args,          \* the arguments of a call of one of the other functions
    result         \* what that call computed and returned

vars == <<pc, fn, exc, log, stderr, array, layout, activityData, df, days,
          has_quals, dfs, nsample, dfs_sparse, maxtime, ticks, nbins, labels,
          args, result>>

heatvars == <<array, layout, activityData>>
timevars == <<df, days, has_quals, dfs, nsample, dfs_sparse, maxtime, ticks,
              nbins, labels>>
othervars == <<args, result>>

---------------------------------------------------------------------------
(* Bounds of the inputs.                                                   *)

\* longest sequence of observations drawn from ObsValues
MaxObs == 3
\* most rows of a table of reads
MaxRows == 2
\* start times run from -NegTicks to PosTicks steps of TickSeconds
NegTicks == 2
PosTicks == 14
\* largest days argument of a direct call of check_valid_time_and_sort
MaxDays == 6
\* most values in the arrays passed to scatter, length_plots and violin_or_box_plot
MaxReads == 3

TickSeconds == 9 * 3600

\* observations tried in sequences: valid channels and values outside 1..512
ObsValues == {-1, 0, 1, 8, 33, 377, 512, 513}

RECURSIVE SeqsUpTo(_, _)
SeqsUpTo(S, n) ==
    IF n = 0 THEN {<<>>}
    ELSE LET shorter == SeqsUpTo(S, n - 1)
         IN shorter \cup {Append(s, x) : s \in {t \in shorter : Len(t) = n - 1}, x \in S}

---------------------------------------------------------------------------
(* Python and numpy helpers.                                               *)

\* list(range(start, stop, step))
RECURSIVE PyRange(_, _, _)
PyRange(start, stop, step) ==
    IF (step > 0 /\ start < stop) \/ (step < 0 /\ start > stop)
    THEN <<start>> \o PyRange(start + step, stop, step)
    ELSE <<>>

\* zip of two lists
Zip(a, b) ==
    [k \in 1..(IF Len(a) < Len(b) THEN Len(a) ELSE Len(b)) |-> <<a[k], b[k]>>]

\* np.array(list of lists): a 2-d array with 0-based indices
NpArray(ll) ==
    [r \in 0..(Len(ll) - 1) |-> [c \in 0..(Len(ll[1]) - 1) |-> ll[r + 1][c + 1]]]

\* variant of Transpose: the rows come out in reverse order (a flip, not a transpose)
TransposeFlipped(m) ==
    [r \in DOMAIN m[0] |-> [c \in DOMAIN m |-> m[c][(Cardinality(DOMAIN m[0]) - 1) - r]]]

\* ndarray.transpose() of a 2-d array
Transpose(m) ==
    [r \in DOMAIN m[0] |-> [c \in DOMAIN m |-> m[c][r]]]

\* variant of NpZeros: the grid starts at 1 in every cell
NpOnes(rows, cols) ==
    [r \in 0..(rows - 1) |-> [c \in 0..(cols - 1) |-> 1]]

\* np.zeros((rows, cols))
NpZeros(rows, cols) ==
    [r \in 0..(rows - 1) |-> [c \in 0..(cols - 1) |-> 0]]

\* np.where(grid == entry): the index pairs of the matching cells
NpWhere(grid, entry) ==
    {rc \in {<<r, c>> : r \in DOMAIN grid, c \in DOMAIN grid[0]} :
        grid[rc[1]][rc[2]] = entry}

\* grid[index] = value
SetCells(grid, index, value) ==
    [r \in DOMAIN grid |->
        [c \in DOMAIN grid[r] |-> IF <<r, c>> \in index THEN value ELSE grid[r][c]]]

Occurrences(s, v) == Cardinality({k \in DOMAIN s : s[k] = v})

---------------------------------------------------------------------------
(* make_layout                                                             *)

TopSeeds == <<33, 481, 417, 353, 289, 225, 161, 97>>
BottomSeeds == <<8, 456, 392, 328, 264, 200, 136, 72>>

\* variant of LayoutRow: the descending run starts one below its seed
LayoutRowShortRun(i, j, n) ==
    PyRange(i + n * 8, (i + n * 8) + 8, 1) \o PyRange((j + n * 8) - 1, (j + n * 8) - 9, -1)

\* variant of LayoutRow: the descending run comes before the ascending run
LayoutRowDescendingFirst(i, j, n) ==
    PyRange(j + n * 8, (j + n * 8) - 8, -1) \o PyRange(i + n * 8, (i + n * 8) + 8, 1)

\* the row appended for the seed pair (i, j) and sub-index n
LayoutRow(i, j, n) ==
    PyRange(i + n * 8, (i + n * 8) + 8, 1) \o PyRange(j + n * 8, (j + n * 8) - 8, -1)

\* layoutlist after the two loops: 4 rows per seed pair, in loop order
layoutlist ==
    LET seeds == Zip(TopSeeds, BottomSeeds)
    IN [k \in 1..(4 * Len(seeds)) |->
            LayoutRow(seeds[((k - 1) \div 4) + 1][1],
                      seeds[((k - 1) \div 4) + 1][2],
                      (k - 1) % 4)]

make_layout ==
    Transpose(NpArray(layoutlist))

---------------------------------------------------------------------------
(* spatial_heatmap                                                         *)

NumRows == 16
NumCols == 32

\* variant of value_counts: every distinct value counts once
value_counts_presence(a) ==
    [v \in {a[k] : k \in DOMAIN a} |-> 1]

\* pd.value_counts(pd.Series(array)): distinct value -> number of occurrences
value_counts(a) ==
    [v \in {a[k] : k \in DOMAIN a} |-> Occurrences(a, v)]

FirstIndex(a, v) == CHOOSE k \in DOMAIN a : a[k] = v /\ \A m \in 1..(k - 1) : a[m] # v

\* valueCounts.keys(): most frequent first, ties in order of first appearance
RECURSIVE KeysOf(_, _, _)
KeysOf(a, vc, left) ==
    IF left = {} THEN <<>>
    ELSE LET first == CHOOSE v \in left :
                        \A w \in left \ {v} :
                            \/ vc[v] > vc[w]
                            \/ vc[v] = vc[w] /\ FirstIndex(a, v) < FirstIndex(a, w)
         IN <<first>> \o KeysOf(a, vc, left \ {first})

\* variant of PlaceEntry: an entry outside the layout is moved to the nearest channel
PlaceEntryClamped(grid, lay, entry, count) ==
    SetCells(grid,
             NpWhere(lay, IF entry < 1 THEN 1 ELSE IF entry > 512 THEN 512 ELSE entry),
             count)

\* variant of PlaceEntry: the count lands in the mirrored column
PlaceEntryMirrored(grid, lay, entry, count) ==
    SetCells(grid, {<<rc[1], 31 - rc[2]>> : rc \in NpWhere(lay, entry)}, count)

\* one pass of the loop body: activityData[np.where(layout == entry)] = valueCounts[entry]
PlaceEntry(grid, lay, entry, count) ==
    SetCells(grid, NpWhere(lay, entry), count)

\* the for loop over valueCounts.keys()
RECURSIVE PlaceAll(_, _, _, _)
PlaceAll(grid, lay, keys, vc) ==
    IF keys = <<>> THEN grid
    ELSE PlaceAll(PlaceEntry(grid, lay, Head(keys), vc[Head(keys)]), lay, Tail(keys), vc)

Arrays ==
    SeqsUpTo(ObsValues, MaxObs) \cup {<<c>> : c \in 1..(NumRows * NumCols)}

spatial_heatmap ==
    /\ pc = "idle"
    /\ \E a \in Arrays :
        LET lay == make_layout
            vc == value_counts(a)
        IN /\ array' = a
           /\ log' = <<[level |-> "INFO", what |-> "reads", n |-> Len(a)]>>
           /\ layout' = lay
           /\ activityData' =
                PlaceAll(NpZeros(NumRows, NumCols), lay, KeysOf(a, vc, DOMAIN vc), vc)
    /\ fn' = "spatial_heatmap"
    /\ pc' = "done"
    /\ UNCHANGED <<exc, stderr, timevars, othervars>>

---------------------------------------------------------------------------
(* check_valid_time_and_sort                                               *)

\* seconds in timedelta(days=1)
DaySeconds == 24 * 3600

\* timedelta(days=d) in seconds
Timedelta(d) == d * DaySeconds

\* Timedelta.days: whole days, rounded towards minus infinity
TimedeltaDays(seconds) == seconds \div DaySeconds

SeqMax(s) == CHOOSE x \in {s[k] : k \in DOMAIN s} : \A k \in DOMAIN s : s[k] <= x
SeqMin(s) == CHOOSE x \in {s[k] : k \in DOMAIN s} : \A k \in DOMAIN s : x <= s[k]

RECURSIVE Insert(_, _)
Insert(sorted, x) ==
    IF sorted = <<>> THEN <<x>>
    ELSE IF x < Head(sorted) THEN <<x>> \o sorted
    ELSE <<Head(sorted)>> \o Insert(Tail(sorted), x)

\* df.sort_values(timescol): the rows in ascending order of time
RECURSIVE sort_values(_)
sort_values(col) ==
    IF col = <<>> THEN <<>>
    ELSE Insert(sort_values(SubSeq(col, 1, Len(col) - 1)), col[Len(col)])

\* df[df[timescol] < timedelta(days=days)]
RowsBefore(col, d) ==
    SelectSeq(col, LAMBDA t : t < Timedelta(d))

\* the value returned, with what was written to stderr and logged on the way
check_valid_time_and_sort(col, d) ==
    LET timediff == TimedeltaDays(SeqMax(col) - SeqMin(col))
    IN IF timediff < d
       THEN [ret |-> sort_values(col), stderr |-> <<>>, log |-> <<>>]
       ELSE [ret |-> sort_values(RowsBefore(col, d)),
             stderr |-> <<"Warning: data generated is from more than days",
                          "Likely this indicates you are combining multiple runs",
                          "Plots based on time are invalid and therefore truncated">>,
             log |-> <<[level |-> "WARNING", what |-> "truncated", n |-> timediff]>>]

TimeValues == {k * TickSeconds : k \in (0 - NegTicks)..PosTicks}

\* the non-empty tables of reads
DataFrames == SeqsUpTo(TimeValues, MaxRows) \ {<<>>}

\* a direct call check_valid_time_and_sort(df, "start_time", days)
call_check_valid_time_and_sort ==
    /\ pc = "idle"
    /\ \E col \in DataFrames, d \in 1..MaxDays :
        LET chk == check_valid_time_and_sort(col, d)
        IN /\ df' = col
           /\ days' = d
           /\ dfs' = chk.ret
           /\ stderr' = chk.stderr
           /\ log' = chk.log
    /\ fn' = "check_valid_time_and_sort"
    /\ pc' = "done"
    /\ UNCHANGED <<exc, heatvars, has_quals, nsample, dfs_sparse, maxtime, ticks,
                   nbins, labels, othervars>>

---------------------------------------------------------------------------
(* time_plots                                                              *)

\* days=5, the default of check_valid_time_and_sort
DefaultDays == 5
\* most rows sampled for the scatter plots
SampleMax == 2000
HourSeconds == 3600
\* hours below which the axis ticks are 4 hours apart
ShortRunHours == 72
\* end of the range of tick and label hours
RangeHours == 168
\* hours per quality bin
BinHours == 6

Min(a, b) == IF a < b THEN a ELSE b

\* ceil(a / b) for b > 0
CeilDiv(a, b) == 0 - ((0 - a) \div b)

\* the outcomes of rows.sample(n) for n <= len(rows): n rows, none taken twice
Samples(rows, n) ==
    {[k \in 1..n |-> rows[p[k]]] :
        p \in {q \in [1..n -> DOMAIN rows] : \A i, j \in 1..n : q[i] = q[j] => i = j}}

\* [int(i) for i in range(0, 168, steps) if not i > (maxtime / 3600)]
TicksUpTo(mt, steps) ==
    SelectSeq(PyRange(0, RangeHours, steps), LAMBDA i : ~(i * HourSeconds > mt))

\* bins=ceil((maxtime / 3600) / 6)
BinCount(mt) == CeilDiv(mt, HourSeconds * BinHours)

\* labels=[str(i) + "-" + str(i + 6) for i in range(0, 168, 6) if not i > (maxtime / 3600)]
BinLabels(mt) ==
    LET lower == SelectSeq(PyRange(0, RangeHours, BinHours),
                           LAMBDA i : ~(i * HourSeconds > mt))
    IN [k \in 1..Len(lower) |-> <<lower[k], lower[k] + BinHours>>]

time_plots ==
    /\ pc = "idle"
    /\ fn' = "time_plots"
    /\ days' = DefaultDays
    /\ UNCHANGED <<heatvars, othervars>>
    /\ \E col \in DataFrames, q \in BOOLEAN :
        LET chk == check_valid_time_and_sort(col, DefaultDays)
            n == Min(SampleMax, Len(col))
        IN /\ df' = col
           /\ has_quals' = q
           /\ dfs' = chk.ret
           /\ stderr' = chk.stderr
           /\ log' = chk.log \o <<[level |-> "INFO", what |-> "reads", n |-> Len(chk.ret)]>>
           /\ nsample' = n
           /\ IF n > Len(chk.ret)
              THEN \* DataFrame.sample: larger sample than population
                   /\ pc' = "raised"
                   /\ exc' = "ValueError in sample"
                   /\ UNCHANGED <<dfs_sparse, maxtime, ticks, nbins, labels>>
              ELSE \E sparse \in Samples(chk.ret, n) :
                   LET mt == SeqMax(sparse)
                       steps == IF mt < ShortRunHours * HourSeconds THEN 4 ELSE 8
                   IN /\ dfs_sparse' = sparse
                      /\ maxtime' = mt
                      /\ ticks' = TicksUpTo(mt, steps)
                      /\ IF q
                         THEN /\ nbins' = BinCount(mt)
                              /\ labels' = BinLabels(mt)
                              /\ IF BinCount(mt) < 1 \/ Len(BinLabels(mt)) # BinCount(mt)
                                 THEN \* pd.cut rejects the bins or the labels
                                      pc' = "raised" /\ exc' = "ValueError in cut"
                                 ELSE pc' = "done" /\ exc' = ""
                         ELSE /\ pc' = "done"
                              /\ exc' = ""
                              /\ UNCHANGED <<nbins, labels>>

---------------------------------------------------------------------------
(* check_valid_color and check_valid_format                                *)

\* the default color and the default format
DefaultColor == "#4CB391"
DefaultFormat == "png"

\* some of the keys of mcolors.CSS4_COLORS
CSS4Colors == {"red", "green", "black"}

\* the colors tried: CSS4 names, the default, and strings that are no color
ColorInputs == CSS4Colors \cup {DefaultColor, "notacolor", "#123456", ""}

\* some of the keys of fig.canvas.get_supported_filetypes() of the Agg canvas
SupportedFiletypes == {"png", "pdf", "svg", "ps", "eps"}

\* the formats tried: supported ones and strings that are no format
FormatInputs == SupportedFiletypes \cup {"notaformat", "PNG", ""}

check_valid_color ==
    /\ pc = "idle"
    /\ \E color \in ColorInputs :
        /\ args' = [color |-> color]
        /\ IF color \in CSS4Colors \cup {DefaultColor}
           THEN /\ log' = <<[level |-> "INFO", what |-> "Valid color", arg |-> color]>>
                /\ stderr' = <<>>
                /\ result' = color
           ELSE /\ log' = <<[level |-> "INFO", what |-> "Invalid color, using default",
                             arg |-> color]>>
                /\ stderr' = <<<<"Invalid color", color, "using default">>>>
                /\ result' = DefaultColor
    /\ fn' = "check_valid_color"
    /\ pc' = "done"
    /\ UNCHANGED <<exc, heatvars, timevars>>

check_valid_format ==
    /\ pc = "idle"
    /\ \E figformat \in FormatInputs :
        /\ args' = [figformat |-> figformat]
        /\ IF figformat \in SupportedFiletypes
           THEN /\ log' = <<[level |-> "INFO", what |-> "valid output format",
                             arg |-> figformat]>>
                /\ stderr' = <<>>
                /\ result' = figformat
           ELSE /\ log' = <<[level |-> "INFO", what |-> "invalid output format",
                             arg |-> figformat]>>
                /\ stderr' = <<<<"Invalid format", figformat, "using default">>>>
                /\ result' = DefaultFormat
    /\ fn' = "check_valid_format"
    /\ pc' = "done"
    /\ UNCHANGED <<exc, heatvars, timevars>>

---------------------------------------------------------------------------
(* scatter, length_plots, violin_or_box_plot, output_barplot               *)
(* Strings that the code edits are sequences of one-character strings.     *)

RECURSIVE Pow10(_)
Pow10(i) == IF i = 0 THEN 1 ELSE 10 * Pow10(i - 1)

\* [10**i for i in range(10) if not 10**i > limit]
LogTicks(limit) ==
    LET powers == [k \in 1..10 |-> Pow10(k - 1)]
    IN SelectSeq(powers, LAMBDA t : ~(t > limit))

\* str.replace(old, new) for a one-character old
RECURSIVE Replace(_, _, _)
Replace(str, old, new) ==
    IF str = <<>> THEN <<>>
    ELSE (IF Head(str) = old THEN new ELSE <<Head(str)>>) \o Replace(Tail(str), old, new)

\* round(a / b) for a >= 0, b > 0: to the nearest integer, a half to the even one
PyRound(a, b) ==
    LET q == a \div b
        twice == 2 * (a % b)
    IN IF twice < b THEN q
       ELSE IF twice > b THEN q + 1
       ELSE IF q % 2 = 0 THEN q ELSE q + 1

\* the values tried in the arrays of the plot functions
ReadValues == {1, 2, 3, 50, 250, 2500}
\* the arrays are not empty
ReadArrays == SeqsUpTo(ReadValues, MaxReads) \ {<<>>}

\* the x and y arrays scatter is tried on
ScatterX == SeqsUpTo({1, 3, 250}, MaxReads) \ {<<>>}
ScatterY == SeqsUpTo({2, 7}, MaxReads) \ {<<>>}

\* the names scatter is called with
ScatterNames == {<<"Read lengths", "Average read quality">>,
                 <<"Read lengths", "Aligned read lengths">>}

\* the Plot made for one kind of bivariate plot
ScatterPlot(kind, ending, names, logx) ==
    [path |-> <<"path", ending, DefaultFormat>>,
     title |-> <<names[1], "vs", names[2], kind>>,
     after_log |-> logx]

\* whether the points (x[k], y[k]) all lie on one line (or are one point)
Collinear(x, y) ==
    \A i, j, k \in DOMAIN x :
        (x[j] - x[i]) * (y[k] - y[i]) = (x[k] - x[i]) * (y[j] - y[i])

\* sns.jointplot(kind="kde"): the bivariate density estimate needs more
\* observations than variables, so it raises on 1 or 2 reads; on 3 or more
\* reads that lie on one line the outcome depends on the estimator installed
\* (singular covariance), so both outcomes are possible; otherwise it draws
KdeOutcomes(x, y) ==
    IF Len(x) < 3 THEN {"raises"}
    ELSE IF Collinear(x, y) THEN {"raises", "draws"}
    ELSE {"draws"}

\* the ticks of one bivariate plot, none unless log is set
ScatterTicks(logx, maxvalx) ==
    IF logx THEN LogTicks(10 * Pow10(maxvalx)) ELSE <<>>

scatter ==
    /\ pc = "idle"
    /\ \E x \in ScatterX, y \in ScatterY, names \in ScatterNames,
          plots \in [{"hex", "dot", "kde", "pauvre"} -> BOOLEAN], logx \in BOOLEAN :
        /\ Len(x) = Len(y)
        \* with log set x holds log10 of the lengths: small values
        /\ logx => \A k \in DOMAIN x : x[k] <= 3
        /\ args' = [x |-> x, y |-> y, names |-> names, plots |-> plots, log |-> logx]
        /\ log' = <<[level |-> "INFO", what |-> "Creating plots", names |-> names,
                     n |-> Len(x)]>>
        /\ LET maxvalx == SeqMax(x)
               maxvaly == SeqMax(y)
               hex == IF plots["hex"]
                      THEN <<ScatterPlot("plot using hexagonal bins", "_hex.", names, logx)>>
                      ELSE <<>>
               dot == IF plots["dot"]
                      THEN <<ScatterPlot("plot using dots", "_dot.", names, logx)>>
                      ELSE <<>>
               kde == IF plots["kde"]
                      THEN <<ScatterPlot("plot using a kernel density estimation",
                                         "_kde.", names, logx)>>
                      ELSE <<>>
               pauvre == IF plots["pauvre"]
                            /\ names = <<"Read lengths", "Average read quality">>
                         THEN <<ScatterPlot("plot using pauvre-style @conchoecia",
                                            "_pauvre.", names, logx)>>
                         ELSE <<>>
           IN \E outcome \in (IF plots["kde"] THEN KdeOutcomes(x, y) ELSE {"draws"}) :
                IF outcome = "raises"
                THEN \* the kde jointplot raises: the plots made so far stay
                     \* saved, nothing is returned
                     /\ pc' = "raised"
                     /\ exc' = "error in jointplot kde"
                     /\ result' = [xlim |-> <<0, maxvalx>>,
                                   ylim |-> <<0, maxvaly>>,
                                   ticks |-> IF plots["hex"] \/ plots["dot"]
                                             THEN ScatterTicks(logx, maxvalx) ELSE <<>>,
                                   plots_made |-> hex \o dot]
                ELSE /\ pc' = "done"
                     /\ exc' = ""
                     /\ result' = [xlim |-> <<0, maxvalx>>,
                                   ylim |-> <<0, maxvaly>>,
                                   ticks |-> IF plots["hex"] \/ plots["dot"] \/ plots["kde"]
                                             THEN ScatterTicks(logx, maxvalx) ELSE <<>>,
                                   plots_made |-> hex \o dot \o kde \o pauvre]
    /\ fn' = "scatter"
    /\ UNCHANGED <<stderr, heatvars, timevars>>

\* the names length_plots is called with
PlotNames == {<<"l", "e", "n">>, <<"a", " ", "b">>, <<" ", " ">>}

\* the n50 values tried; 0 stands for None (both are false in `if n50`)
N50Values == {0, 50, 2500}

length_plots ==
    /\ pc = "idle"
    /\ \E a \in ReadArrays, name \in PlotNames, n50 \in N50Values :
        /\ args' = [array |-> a, name |-> name, n50 |-> n50]
        /\ LET maxvalx == SeqMax(a)
               stem == Replace(name, " ", <<>>)
               bins == PyRound(maxvalx, 100)
           IN /\ log' =
                   <<[level |-> "INFO", what |-> "Creating length plots", name |-> name],
                     IF n50 # 0
                     THEN [level |-> "INFO", what |-> "Using reads with N50 and maximum",
                           n |-> Len(a), n50 |-> n50, maxvalx |-> maxvalx]
                     ELSE [level |-> "INFO", what |-> "Using reads maximum",
                           n |-> Len(a), maxvalx |-> maxvalx]>>
              /\ IF bins < 1
                 THEN \* sns.distplot(bins=0): the histogram rejects the bins
                      /\ pc' = "raised"
                      /\ exc' = "ValueError in distplot"
                      /\ result' = [bins |-> bins]
                 ELSE /\ pc' = "done"
                      /\ exc' = ""
                      /\ result' =
                           [bins |-> bins,
                            ticks |-> LogTicks(10 * maxvalx),
                            n50_line |-> n50 # 0,
                            plots |-> <<[path |-> <<"path", "Histogram", stem, ".",
                                                    DefaultFormat>>,
                                         title |-> "Histogram of read lengths"],
                                        [path |-> <<"path", "LogTransformedHistogram", stem,
                                                    ".", DefaultFormat>>,
                                         title |->
                                           "Histogram of read lengths after log transformation"]>>]
    /\ fn' = "length_plots"
    /\ UNCHANGED <<stderr, heatvars, timevars>>

\* the column names violin_or_box_plot is called with
ColumnNames == {<<"q">>, <<"l", " ", "n">>}

violin_or_box_plot ==
    /\ pc = "idle"
    /\ \E col \in ReadArrays, y \in ColumnNames, violin \in BOOLEAN, logy \in BOOLEAN :
        \* with log set the column holds log10 of the lengths: small values
        /\ logy => \A k \in DOMAIN col : col[k] <= 3
        /\ args' = [col |-> col, y |-> y, violin |-> violin, log |-> logy]
        /\ log' = <<[level |-> "INFO",
                     what |-> IF violin THEN "Creating violin plot" ELSE "Creating box plot",
                     name |-> y]>>
        /\ result' =
                     [kind |-> IF violin THEN "violinplot" ELSE "boxplot",
                      yticks |-> IF logy THEN LogTicks(10 * Pow10(SeqMax(col))) ELSE <<>>,
                      fname |-> <<"path", "NanoComp_", Replace(y, " ", <<"_">>), ".",
                                  DefaultFormat>>]
    /\ fn' = "violin_or_box_plot"
    /\ pc' = "done"
    /\ UNCHANGED <<exc, stderr, heatvars, timevars>>

\* the dataset names tried in the table of output_barplot
DatasetNames == {"a", "b"}

\* df["dataset"].unique(): the distinct values in order of first appearance
Unique(col) ==
    SelectSeq([k \in DOMAIN col |-> IF \A m \in 1..(k - 1) : col[m] # col[k]
                                      THEN <<col[k]>> ELSE <<>>],
              LAMBDA e : e # <<>>)

RECURSIVE SumWhere(_, _, _)
SumWhere(rows, name, k) ==
    IF k = 0 THEN 0
    ELSE (IF rows[k].dataset = name THEN rows[k].lengths ELSE 0) + SumWhere(rows, name, k - 1)

output_barplot ==
    /\ pc = "idle"
    /\ \E rows \in SeqsUpTo([dataset : DatasetNames, lengths : ReadValues], MaxReads) \ {<<>>} :
        LET order == Unique([k \in DOMAIN rows |-> rows[k].dataset])
        IN /\ args' = [df |-> rows]
           /\ result' =
                [order |-> [k \in DOMAIN order |-> order[k][1]],
                 \* df.groupby('dataset')['lengths'].sum(), before the division by 1e6
                 throughput |-> [name \in {rows[k].dataset : k \in DOMAIN rows} |->
                                    SumWhere(rows, name, Len(rows))],
                 saved |-> <<<<"path", "NanoComp_number_of_reads.", DefaultFormat>>,
                             <<"path", "NanoComp_total_throughput.", DefaultFormat>>>>]
    /\ fn' = "output_barplot"
    /\ pc' = "done"
    /\ UNCHANGED <<exc, log, stderr, heatvars, timevars>>

---------------------------------------------------------------------------

Init ==
    /\ pc = "idle"
    /\ fn = ""
    /\ exc = ""
    /\ log = <<>>
    /\ stderr = <<>>
    /\ array = <<>>
    /\ layout = <<>>
    /\ activityData = <<>>
    /\ df = <<>>
    /\ days = 0
    /\ has_quals = FALSE
    /\ dfs = <<>>
    /\ nsample = 0
    /\ dfs_sparse = <<>>
    /\ maxtime = 0
    /\ ticks = <<>>
    /\ nbins = 0
    /\ labels = <<>>
    /\ args = <<>>
    /\ result = <<>>

Next ==
    \/ spatial_heatmap
    \/ call_check_valid_time_and_sort
    \/ time_plots
    \/ check_valid_color
    \/ check_valid_format
    \/ scatter
    \/ length_plots
    \/ violin_or_box_plot
    \/ output_barplot

Spec == Init /\ [][Next]_vars

---------------------------------------------------------------------------
(* Properties of make_layout and spatial_heatmap.                          *)

HeatDone == fn = "spatial_heatmap" /\ pc = "done"

\* the index pairs of a 16 x 32 grid
GridCells == (0..15) \X (0..31)

Is16x32(grid) ==
    /\ DOMAIN grid = 0..15
    /\ \A r \in 0..15 : DOMAIN grid[r] = 0..31

ValidId(v) == v \in 1..512

ValidObs(a) == SelectSeq(a, ValidId)

RECURSIVE RowSum(_, _)
RowSum(row, c) == IF c < 0 THEN 0 ELSE row[c] + RowSum(row, c - 1)

RECURSIVE GridSumTo(_, _)
GridSumTo(grid, r) == IF r < 0 THEN 0 ELSE RowSum(grid[r], 31) + GridSumTo(grid, r - 1)

GridSum(grid) == GridSumTo(grid, 15)

\* C1: the grid make_layout returns has 16 rows and 32 columns and holds
\* every integer 1..512 exactly once: its 512 cells hold values whose set is
\* exactly 1..512, so none is missing, repeated or out of range.
C1_LayoutBijection ==
    HeatDone =>
        /\ Is16x32(layout)
        /\ Cardinality(GridCells) = 512
        /\ {layout[rc[1]][rc[2]] : rc \in GridCells} = 1..512

C1_Witness == HeatDone /\ array = <<>> /\ Is16x32(layout)

\* C2: after spatial_heatmap, every cell (r, c) of the activity grid holds the
\* number of occurrences in the observations of the channel at layout[r][c]
\* (0 when that channel never occurs), in the layout's orientation.
C2_CellIsCount ==
    HeatDone =>
        /\ Is16x32(layout)
        /\ Is16x32(activityData)
        /\ \A rc \in GridCells :
              activityData[rc[1]][rc[2]] = Occurrences(array, layout[rc[1]][rc[2]])

C2_Witness ==
    /\ HeatDone
    /\ array = <<33, 377, 33>>
    /\ activityData[0][0] = 2
    /\ activityData[0][15] = 1

\* C3: after spatial_heatmap, the sum of the 512 cells of the activity grid
\* equals the number of observations whose value lies in 1..512.
C3_SumIsValidCount ==
    HeatDone =>
        /\ Is16x32(activityData)
        /\ GridSum(activityData) = Len(ValidObs(array))

C3_Witness ==
    /\ HeatDone
    /\ array = <<512, 513, 512>>
    /\ GridSum(activityData) = 2

\* the number of observations outside 1..512
Dropped(a) == Len(a) - Len(ValidObs(a))

\* C4 as stated: observations outside 1..512 never make spatial_heatmap fail,
\* change no cell of the activity grid, and their number is reported as a
\* warning count.
C4_DroppedAreReported ==
    (fn = "spatial_heatmap" /\ Dropped(array) > 0) =>
        /\ pc = "done"
        /\ \A rc \in GridCells :
              activityData[rc[1]][rc[2]]
                  = Occurrences(ValidObs(array), layout[rc[1]][rc[2]])
        /\ \/ \E k \in DOMAIN log : log[k].level = "WARNING" /\ log[k].n = Dropped(array)
           \/ stderr # <<>>

\* C4 amended: observations outside 1..512 never make spatial_heatmap fail
\* and change no cell of the activity grid (it is the grid of the valid
\* observations alone); they are dropped silently: nothing is written to
\* stderr and the only record logged is the INFO record with the total
\* number of observations, so the number dropped is not reported.
C4_DroppedSilently ==
    (fn = "spatial_heatmap" /\ Dropped(array) > 0) =>
        /\ pc = "done"
        /\ exc = ""
        /\ Is16x32(activityData)
        /\ \A rc \in GridCells :
              activityData[rc[1]][rc[2]]
                  = Occurrences(ValidObs(array), layout[rc[1]][rc[2]])
        /\ stderr = <<>>
        /\ log = <<[level |-> "INFO", what |-> "reads", n |-> Len(array)]>>

C4_Witness ==
    /\ HeatDone
    /\ array = <<0, 513, -1>>
    /\ Dropped(array) = 3
    /\ GridSum(activityData) = 0

\* every cell other than the listed ones is 0
ZeroExcept(grid, cells) ==
    \A rc \in GridCells \ cells : grid[rc[1]][rc[2]] = 0

\* C5 as stated: channel 33 is at row 0, column 0 and channel 8 at row 0,
\* column 15, and the observations [33, 33, 8] give 2 at (0, 0), 1 at (0, 15)
\* and 0 elsewhere.
C5_ExampleAsStated ==
    HeatDone =>
        /\ layout[0][0] = 33
        /\ layout[0][15] = 8
        /\ array = <<33, 33, 8>> =>
              /\ activityData[0][0] = 2
              /\ activityData[0][15] = 1
              /\ ZeroExcept(activityData, {<<0, 0>>, <<0, 15>>})

\* C5 amended: channel 33 is at row 0, column 0 and channel 8 at row 8,
\* column 0 (row 0, column 15 holds channel 377), and the observations
\* [33, 33, 8] give 2 at (0, 0), 1 at (8, 0) and 0 elsewhere.
C5_Example ==
    HeatDone =>
        /\ Is16x32(layout)
        /\ layout[0][0] = 33
        /\ layout[8][0] = 8
        /\ layout[0][15] = 377
        /\ array = <<33, 33, 8>> =>
              /\ activityData[0][0] = 2
              /\ activityData[8][0] = 1
              /\ ZeroExcept(activityData, {<<0, 0>>, <<8, 0>>})

C5_Witness ==
    /\ HeatDone
    /\ array = <<33, 33, 8>>
    /\ activityData[8][0] = 1

\* the seeds as the construction rule lists them
RuleTopSeed == <<33, 481, 417, 353, 289, 225, 161, 97>>
RuleBottomSeed == <<8, 456, 392, 328, 264, 200, 136, 72>>

\* C6: for every block k in 0..7, sub-index n in 0..3 and offset p in 0..7,
\* layout[p][4k+n] = top_seed[k] + 8n + p and
\* layout[8+p][4k+n] = bottom_seed[k] + 8n - p.
C6_ConstructionRule ==
    HeatDone =>
        /\ Is16x32(layout)
        /\ \A k \in 0..7, n \in 0..3, p \in 0..7 :
              /\ layout[p][4 * k + n] = RuleTopSeed[k + 1] + 8 * n + p
              /\ layout[8 + p][4 * k + n] = RuleBottomSeed[k + 1] + 8 * n - p

C6_Witness ==
    /\ HeatDone
    /\ layout[7][31] = 97 + 24 + 7
    /\ layout[15][31] = 72 + 24 - 7

\* C7: for a single observation [c] with c in 1..512, exactly one cell of the
\* activity grid is 1, the other 511 are 0, and the cell that is 1 is the
\* one where the layout holds c.
C7_SingleObservation ==
    (HeatDone /\ Len(array) = 1 /\ ValidId(array[1])) =>
        /\ Is16x32(activityData)
        /\ Cardinality({rc \in GridCells : activityData[rc[1]][rc[2]] = 1}) = 1
        /\ Cardinality({rc \in GridCells : activityData[rc[1]][rc[2]] = 0}) = 511
        /\ \A rc \in GridCells :
              activityData[rc[1]][rc[2]] = 1 <=> layout[rc[1]][rc[2]] = array[1]

C7_Witness ==
    /\ HeatDone
    /\ array = <<200>>
    /\ activityData[8][20] = 1

---------------------------------------------------------------------------
(* Properties of check_valid_time_and_sort and time_plots.                 *)

\* C8: the rows check_valid_time_and_sort returns are in ascending order of
\* time and lie within one `days`-day timeframe: the latest returned time
\* is less than `days` days after the earliest.
C8_WithinDaysAndSorted ==
    (fn = "check_valid_time_and_sort" /\ pc = "done") =>
        /\ \A i, j \in DOMAIN dfs : i < j => dfs[i] <= dfs[j]
        /\ \A i, j \in DOMAIN dfs : dfs[j] - dfs[i] < Timedelta(days)

\* C9: in time_plots the number of rows asked of the sample,
\* min(2000, rows of df), never exceeds the rows of the table sampled.
C9_SampleFits ==
    fn = "time_plots" => nsample <= Len(dfs)

\* C10: in time_plots, for 0 <= maxtime < 5 days, the number of interval
\* labels equals the number of bins asked of the binning call.
C10_LabelsMatchBins ==
    (/\ fn = "time_plots"
     /\ has_quals
     /\ exc # "ValueError in sample"
     /\ 0 <= maxtime
     /\ maxtime < Timedelta(5)) =>
        Len(labels) = nbins


====
